---- MODULE Spec2Model ----
(***************************************************************************)
(* Model of src/sampler.py (class Sampler): parallel MCMC / STUN sampler   *)
(* over zero-padded symbol sequences.                                      *)
(*                                                                         *)
(* Conventions.                                                            *)
(*  - Trajectories are rows 1..nruns (the source counts from 0); sequence  *)
(*    positions are 1..max_length (the source counts from 0).              *)
(*  - A recorded sequence is an entry [live, row, seq].  numpy's           *)
(*    self.config[i] is a VIEW of row i of the array self.config, and      *)
(*    self.config[i] = ... writes into that array in place, so an entry    *)
(*    made from self.config[i] is live: its value is whatever row `row` of *)
(*    the array currently holds.  An entry made from self.propConfig[i] is *)
(*    a view of an array that is never written again (propConfigs rebinds  *)
(*    self.propConfig to a fresh copy), so it is a frozen value.           *)
(*  - self.E0 = scores[1] is likewise a view of the first iteration's      *)
(*    score array, which saveOptima writes through (E0SharesScores).       *)
(*  - Scores are integers; the scoring collaborator is a deterministic     *)
(*    function of the sequence.  Energies and variances mirror the scores' *)
(*    bookkeeping and are left out.                                        *)
(*  - The random buffers are read once per column between two resamplings, *)
(*    so a column is modelled as a fresh draw at the step that reads it.   *)
(*  - exp() is not computed: the acceptance ratio is 1 when DE <= 0 and a  *)
(*    value strictly between 0 and 1 (represented by one half) otherwise;  *)
(*    the STUN transform is increasing in the score for gamma > 0, so DE   *)
(*    has the sign of the raw score difference in both modes.              *)
(***************************************************************************)
EXTENDS Integers, Sequences, FiniteSets, TLC

\* ---------------------------------------------------------------- bounds
\* configuration values of the modelled run (config_main.dataset.*)
min_length == 1
max_length == 3
dict_size == 1
\* len(gammas): trajectories of a freshly constructed sampler
NGammas == 2
\* largest len(initConfigs) handed to postSampleAnnealing
MaxInitConfigs == 1
\* time scales of the run loop, scaled down from the source's values
\* (deltaIter is 10 at sampler.py:26, the stagnation limit 1e3 at
\* sampler.py:380-381) so that a stagnation reset happens within the bound
deltaIter == 2
StagnationLimit == 1
\* config_main.gflownet.post_annealing_time
post_annealing_time == 1
\* largest nIters / sampling_time of one converge call
MaxRunIters == 3
\* number of converge / postSampleAnnealing calls in one behaviour
MaxCalls == 3
\* number of proposals (rows times iterations) made in one behaviour
MaxProposals == 6

\* ------------------------------------------------------- program constants
history == 100
\* recordMargin = 0.2 = 1 / RecordMarginInv
RecordMarginInv == 5
\* temperatures in thousandths: temp0 = 0.1 at construction, 0.01 in
\* postSampleAnnealing
Temp0Sampling == 100
Temp0Annealing == 10
variable_length == TRUE

VARIABLES
    pc,                \* position in the run loop
    mode,              \* which run loop is active: "converge" or "anneal"
    calls,             \* number of run calls made so far
    proposals,         \* number of proposals the calls made so far will make
    iter,              \* self.iter
    run_iters,         \* iteration budget of the active loop
    nruns,             \* self.nruns
    STUN,              \* self.config_main.STUN
    temp0,             \* self.temp0 (thousandths)
    temperature,       \* self.temperature: [base, k] = base * 0.99^k, base 0 = modulated
    config,            \* self.config
    propConfig,        \* self.propConfig
    scores,            \* self.scores: <<scores[0] (proposed), scores[1] (current)>>
    alphaRandoms,      \* self.alphaRandoms[:, ind], in halves
    resetInd,          \* self.resetInd
    acceptanceRate,    \* self.acceptanceRate, numerator over `history`
    E0,                \* self.E0; <<>> while the attribute does not exist
    E0SharesScores,    \* self.E0 is a view of row 1 of the current self.scores
    absMin,            \* self.absMin
    optima,            \* self.optima
    optimalSamples,    \* self.optimalSamples (entries)
    optimalInds,       \* self.optimalInds
    recInds,           \* self.recInds
    newOptima,         \* self.newOptima (entries)
    allOptimalConfigs, \* self.allOptimalConfigs (entries)
    saveCalled,        \* rows for which the last updateConfigs called saveOptima
    recordedAt,        \* per row, the iteration of each append to optima[i]
    everRecorded       \* sequences recorded so far, by value at recording time

vars == <<pc, mode, calls, proposals, iter, run_iters, nruns, STUN, temp0,
          temperature, config, propConfig, scores, alphaRandoms, resetInd,
          acceptanceRate, E0, E0SharesScores, absMin, optima, optimalSamples,
          optimalInds, recInds, newOptima, allOptimalConfigs, saveCalled,
          recordedAt, everRecorded>>

\* ------------------------------------------------------------- sequences
Positions == 1..max_length
Symbols == 1..dict_size
Rows == 1..nruns

\* np.count_nonzero
count_nonzero(s) == Cardinality({k \in Positions : s[k] # 0})

\* Sampler.makeAConfig: every sequence the call can return
makeAConfig ==
    IF variable_length
    THEN {s \in [Positions -> 0..dict_size] :
            \E randChainLen \in min_length..(max_length - 1) :
                /\ \A k \in 1..randChainLen : s[k] \in Symbols
                /\ \A k \in (randChainLen + 1)..max_length : s[k] = 0}
    ELSE [Positions -> Symbols]

\* one row of Sampler.propConfigs, line 233: the point mutation
PointMutation(s, pick, spin) == [s EXCEPT ![pick + 1] = spin]

\* one row of Sampler.propConfigs, lines 236-246: the length change
ChangeLength(p, chg, ext) ==
    IF ~variable_length THEN p
    ELSE IF chg = 0 THEN p
    ELSE LET nnz == count_nonzero(p) IN
         IF chg = 1
         THEN IF nnz < max_length THEN [p EXCEPT ![nnz + 1] = ext] ELSE p
         ELSE IF nnz = -1
              THEN IF nnz > min_length THEN [p EXCEPT ![nnz] = 0] ELSE p
              ELSE p

\* the scoring collaborator (model.evaluate / oracle.score through getScores):
\* a fixed function with scores of both signs, a pair of sequences within
\* the record margin of each other and pairs far outside it
Score(s) == 2 * s[1] - 30 * s[2] + 2 * s[3]

\* ---------------------------------------------------------------- entries
ViewOfConfig(i) == [live |-> TRUE, row |-> i, seq |-> <<>>]
ViewOfProp(s) == [live |-> FALSE, row |-> 0, seq |-> s]
Val(e, cfg) == IF e.live THEN cfg[e.row] ELSE e.seq
Freeze(e, cfg) == ViewOfProp(Val(e, cfg))

RECURSIVE Flatten(_, _)
Flatten(lists, i) ==
    IF i > Len(lists) THEN <<>> ELSE lists[i] \o Flatten(lists, i + 1)

Last(q) == q[Len(q)]

Min(S) == CHOOSE x \in S : \A y \in S : x <= y

\* ------------------------------------------------------------ acceptance
\* Sampler.getDE: the sign of DE (see the conventions above)
getDE(sc, i) == sc[1][i] - sc[2][i]

\* line 269, in halves: min(1, exp(-DE / temperature))
acceptanceRatio(sc, i) == IF getDE(sc, i) <= 0 THEN 2 ELSE 1

AlphaValues == {0, 1}

\* line 286: (E0[i] - scores[0][i]) / E0[i] < recordMargin, in numpy's float
\* arithmetic: a division by zero gives -inf (true), nan or +inf (false)
nearMargin(e0, s) ==
    IF e0 > 0 THEN RecordMarginInv * (e0 - s) < e0
    ELSE IF e0 < 0 THEN RecordMarginInv * (e0 - s) > e0
    ELSE s > 0

\* -------------------------------------------------------- optimum tracker
\* the fields updateConfigs and saveOptima read and write, threaded through
\* the loop over the rows
Tracker ==
    [config |-> config, recInds |-> recInds, E0 |-> E0, absMin |-> absMin,
     optima |-> optima, optimalSamples |-> optimalSamples,
     optimalInds |-> optimalInds, newOptima |-> newOptima,
     allOptimalConfigs |-> allOptimalConfigs, saveCalled |-> {},
     recordedAt |-> recordedAt, everRecorded |-> everRecorded]

\* Sampler.saveOptima(ind, newBest)
saveOptima(st, ind, newBest) ==
    LET prop == propConfig[ind]
        s0 == scores[1][ind]
        pool == IF Len(st.allOptimalConfigs) = 0
                THEN Flatten(st.optimalSamples, 1)
                ELSE st.allOptimalConfigs
        copies == \E k \in 1..Len(pool) : Val(pool[k], st.config) = prop
        record == (~copies) \/ newBest
        st1 == IF record
               THEN [st EXCEPT
                       !.optima[ind] = Append(@, s0),
                       !.optimalSamples[ind] = Append(@, ViewOfProp(prop)),
                       !.allOptimalConfigs = Append(pool, ViewOfProp(prop)),
                       !.recordedAt[ind] = Append(@, iter),
                       !.everRecorded = @ \cup {prop}]
               ELSE [st EXCEPT !.allOptimalConfigs = pool]
    IN  IF newBest
        THEN [st1 EXCEPT
                !.E0[ind] = s0,
                !.absMin = IF s0 < st1.absMin THEN s0 ELSE @,
                !.newOptima[ind] = Append(@, ViewOfProp(prop)),
                !.optimalInds[ind] = Append(@, iter)]
        ELSE st1

\* updateRow with a partial write: an accepted row receives only the first
\* symbol of its proposal
updateRowPartialWrite(st, i, alpha) ==
    IF alpha[i] < acceptanceRatio(scores, i)
    THEN LET st1 == [st EXCEPT !.config[i][1] = propConfig[i][1],
                               !.recInds[i] = Append(@, iter)]
             newBest == scores[1][i] < st1.E0[i]
         IN  IF newBest \/ nearMargin(st1.E0[i], scores[1][i])
             THEN saveOptima([st1 EXCEPT !.saveCalled = @ \cup {i}], i, newBest)
             ELSE st1
    ELSE st

\* one pass of the loop of Sampler.updateConfigs, lines 279-287
updateRow(st, i, alpha) ==
    IF alpha[i] < acceptanceRatio(scores, i)
    THEN LET st1 == [st EXCEPT !.config[i] = propConfig[i],
                               !.recInds[i] = Append(@, iter)]
             newBest == scores[1][i] < st1.E0[i]
         IN  IF newBest \/ nearMargin(st1.E0[i], scores[1][i])
             THEN saveOptima([st1 EXCEPT !.saveCalled = @ \cup {i}], i, newBest)
             ELSE st1
    ELSE st

RECURSIVE updateRows(_, _, _)
updateRows(st, i, alpha) ==
    IF i > nruns THEN st ELSE updateRows(updateRow(st, i, alpha), i + 1, alpha)

\* ------------------------------------------------------------------ Init
\* the state after Sampler.__init__: getInitConfig has drawn the ensemble,
\* the attributes converge and iterate create do not exist yet
Init ==
    /\ pc = "idle"
    /\ mode = "none"
    /\ calls = 0
    /\ proposals = 0
    /\ iter = 0
    /\ run_iters = 0
    /\ nruns = NGammas
    /\ STUN = 1
    /\ temp0 = Temp0Sampling
    /\ temperature = [i \in 1..NGammas |-> [base |-> Temp0Sampling, k |-> 0]]
    /\ config \in [1..NGammas -> makeAConfig]
    /\ propConfig = <<>>
    /\ scores = <<>>
    /\ alphaRandoms = <<>>
    /\ resetInd = <<>>
    /\ acceptanceRate = <<>>
    /\ E0 = <<>>
    /\ E0SharesScores = FALSE
    /\ absMin = 0
    /\ optima = <<>>
    /\ optimalSamples = <<>>
    /\ optimalInds = <<>>
    /\ recInds = <<>>
    /\ newOptima = <<>>
    /\ allOptimalConfigs = <<>>
    /\ saveCalled = {}
    /\ recordedAt = <<>>
    /\ everRecorded = {}

\* --------------------------------------------------------------- run loop
\* Sampler.converge, lines 172-178: initConvergenceStats, resampleRandints
\* and the entry into the loop with run_iters = n
Converge(n) ==
    /\ pc = "idle"
    /\ calls < MaxCalls
    /\ proposals + n * nruns <= MaxProposals
    /\ calls' = calls + 1
    /\ proposals' = proposals + n * nruns
    /\ mode' = "converge"
    /\ resetInd' = [i \in Rows |-> 0]
    /\ acceptanceRate' = [i \in Rows |-> 0]
    /\ run_iters' = n
    /\ iter' = 0
    /\ pc' = "prop"
    /\ UNCHANGED <<nruns, STUN, temp0, temperature, config, propConfig, scores,
                   alphaRandoms, E0, E0SharesScores, absMin, optima,
                   optimalSamples, optimalInds, recInds, newOptima,
                   allOptimalConfigs, saveCalled, recordedAt, everRecorded>>

\* sequences a caller may hand to postSampleAnnealing: valid padded sequences
ValidSequences ==
    {s \in [Positions -> 0..dict_size] :
        \E len \in min_length..max_length :
            /\ \A k \in 1..len : s[k] \in Symbols
            /\ \A k \in (len + 1)..max_length : s[k] = 0}

FreezeAll(lists) ==
    [i \in DOMAIN lists |->
        [k \in DOMAIN lists[i] |-> Freeze(lists[i][k], config)]]

\* Sampler.postSampleAnnealing, lines 198-206.  self.config is rebound to
\* the caller's array (a two-dimensional array, as getInitConfig builds and
\* resetConfig requires), so the views taken of the old array stop following
\* the ensemble: they keep the old array's last contents.  With an existing
\* optimum tracker the call is modelled for at most as many sequences as the
\* tracker has rows (E0[i] beyond them is an IndexError).  The scoring of
\* the final ensemble after the loop (lines 214-222) writes no attribute.
PostSampleAnnealing(initConfigs) ==
    /\ pc = "idle"
    /\ calls < MaxCalls
    /\ E0 # <<>> => Len(initConfigs) <= Len(E0)
    /\ proposals + post_annealing_time * Len(initConfigs) <= MaxProposals
    /\ calls' = calls + 1
    /\ proposals' = proposals + post_annealing_time * Len(initConfigs)
    /\ mode' = "anneal"
    /\ STUN' = 0
    /\ nruns' = Len(initConfigs)
    /\ temp0' = Temp0Annealing
    /\ temperature' = [i \in 1..Len(initConfigs) |->
                          [base |-> Temp0Annealing, k |-> 0]]
    /\ config' = initConfigs
    /\ optimalSamples' = FreezeAll(optimalSamples)
    /\ newOptima' = FreezeAll(newOptima)
    /\ allOptimalConfigs' =
          [k \in DOMAIN allOptimalConfigs |-> Freeze(allOptimalConfigs[k], config)]
    /\ resetInd' = [i \in 1..Len(initConfigs) |-> 0]
    /\ acceptanceRate' = [i \in 1..Len(initConfigs) |-> 0]
    /\ run_iters' = post_annealing_time
    /\ iter' = 0
    /\ pc' = "prop"
    /\ UNCHANGED <<propConfig, scores, alphaRandoms, E0, E0SharesScores,
                   absMin, optima, optimalInds, recInds, saveCalled,
                   recordedAt, everRecorded>>

\* Sampler.propConfigs with the buffers' column ind given
propConfigs(pick, spin, chg, ext) ==
    [i \in Rows |->
        ChangeLength(PointMutation(config[i], pick[i], spin[i]), chg[i], ext[i])]

\* Sampler.getScores: <<scores of the proposals, scores of the ensemble>>
getScores(prop, cfg) ==
    <<[i \in Rows |-> Score(prop[i])], [i \in Rows |-> Score(cfg[i])]>>

\* Sampler.initOptima, called by iterate while self.E0 does not exist
initOptima(sc) ==
    /\ optima' = [i \in Rows |-> <<sc[2][i]>>]
    /\ optimalSamples' = [i \in Rows |-> <<ViewOfConfig(i)>>]
    /\ optimalInds' = [i \in Rows |-> <<0>>]
    /\ recInds' = [i \in Rows |-> <<>>]
    /\ newOptima' = [i \in Rows |-> <<ViewOfConfig(i)>>]
    /\ allOptimalConfigs' = <<>>
    /\ E0' = sc[2]
    /\ absMin' = Min({sc[2][i] : i \in Rows})
    /\ recordedAt' = [i \in Rows |-> <<iter>>]
    /\ everRecorded' = {config[i] : i \in Rows}

\* Sampler.iterate, lines 254-269: propose, score, and create the optimum
\* tracker on the first iteration
ProposeWith(pick, spin, chg, ext) ==
    /\ pc = "prop"
    /\ propConfig' = propConfigs(pick, spin, chg, ext)
    /\ scores' = getScores(propConfig', config)
    /\ E0SharesScores' = (E0 = <<>>)
    /\ IF E0 = <<>>
       THEN initOptima(scores')
       ELSE UNCHANGED <<optima, optimalSamples, optimalInds, recInds,
                        newOptima, allOptimalConfigs, E0, absMin, recordedAt,
                        everRecorded>>
    /\ pc' = "update"
    /\ UNCHANGED <<mode, calls, proposals, iter, run_iters, nruns, STUN, temp0,
                   temperature, config, alphaRandoms, resetInd,
                   acceptanceRate, saveCalled>>

Propose ==
    \E pick \in [Rows -> 0..(max_length - 1)], spin \in [Rows -> Symbols],
       chg \in [Rows -> {-1, 0, 1}], ext \in [Rows -> Symbols] :
        ProposeWith(pick, spin, chg, ext)

\* Sampler.updateConfigs (line 270 of iterate)
UpdateConfigs ==
    /\ pc = "update"
    /\ \E alpha \in [Rows -> AlphaValues] :
        LET st == updateRows(Tracker, 1, alpha) IN
        /\ alphaRandoms' = alpha
        /\ config' = st.config
        /\ recInds' = st.recInds
        /\ E0' = st.E0
        /\ scores' = IF E0SharesScores THEN <<scores[1], st.E0>> ELSE scores
        /\ absMin' = st.absMin
        /\ optima' = st.optima
        /\ optimalSamples' = st.optimalSamples
        /\ optimalInds' = st.optimalInds
        /\ newOptima' = st.newOptima
        /\ allOptimalConfigs' = st.allOptimalConfigs
        /\ saveCalled' = st.saveCalled
        /\ recordedAt' = st.recordedAt
        /\ everRecorded' = st.everRecorded
    /\ pc' = "tail"
    /\ UNCHANGED <<mode, calls, proposals, iter, run_iters, nruns, STUN, temp0,
                   temperature, propConfig, resetInd, acceptanceRate,
                   E0SharesScores>>

\* the end of one pass of the run loop: the next iteration, or the return
Advance ==
    IF iter + 1 < run_iters
    THEN iter' = iter + 1 /\ pc' = "prop"
    ELSE iter' = iter /\ pc' = "idle"

\* line 181: the annealing controller is due
AnnealingDue == (iter % deltaIter = 0) /\ (iter > 0)

\* line 371: accepted iterations among the last `history` entries of recInds
acceptedRecently(i) ==
    LET n == Len(recInds[i])
        from == IF n > history THEN n - history + 1 ELSE 1
    IN  Cardinality({k \in from..n : iter - recInds[i][k] < history})

\* lines 380-381: the stagnation test of row i
Stagnated(i) ==
    /\ (iter - resetInd[i]) > StagnationLimit
    /\ (iter - Last(optimalInds[i])) > StagnationLimit

\* Sampler.updateAnnealing followed by the end of the loop's pass
UpdateAnnealing ==
    /\ pc = "tail"
    /\ mode = "converge"
    /\ AnnealingDue
    /\ \E fresh \in [{i \in Rows : Stagnated(i)} -> makeAConfig] :
        /\ acceptanceRate' = [i \in Rows |-> acceptedRecently(i)]
        /\ temperature' =
              [i \in Rows |-> IF Stagnated(i)
                              THEN [base |-> temp0, k |-> 0]
                              ELSE [base |-> 0, k |-> 0]]
        /\ resetInd' = [i \in Rows |-> IF Stagnated(i) THEN iter ELSE resetInd[i]]
        /\ config' = [i \in Rows |-> IF Stagnated(i) THEN fresh[i] ELSE config[i]]
    /\ Advance
    /\ UNCHANGED <<mode, calls, proposals, run_iters, nruns, STUN, temp0, propConfig,
                   scores, alphaRandoms, E0, E0SharesScores, absMin, optima,
                   optimalSamples, optimalInds, recInds, newOptima,
                   allOptimalConfigs, saveCalled, recordedAt, everRecorded>>

\* a pass of converge's loop on which the controller is not due
EndIteration ==
    /\ pc = "tail"
    /\ mode = "converge"
    /\ ~AnnealingDue
    /\ Advance
    /\ UNCHANGED <<mode, calls, proposals, run_iters, nruns, STUN, temp0, temperature,
                   config, propConfig, scores, alphaRandoms, resetInd,
                   acceptanceRate, E0, E0SharesScores, absMin, optima,
                   optimalSamples, optimalInds, recInds, newOptima,
                   allOptimalConfigs, saveCalled, recordedAt, everRecorded>>

\* line 209 of postSampleAnnealing: the temperature cut, then the end of the
\* loop's pass
CutTemperature ==
    /\ pc = "tail"
    /\ mode = "anneal"
    /\ temperature' =
          [i \in DOMAIN temperature |->
              IF temperature[i].base = 0 THEN temperature[i]
              ELSE [temperature[i] EXCEPT !.k = @ + 1]]
    /\ Advance
    /\ UNCHANGED <<mode, calls, proposals, run_iters, nruns, STUN, temp0, config,
                   propConfig, scores, alphaRandoms, resetInd, acceptanceRate,
                   E0, E0SharesScores, absMin, optima, optimalSamples,
                   optimalInds, recInds, newOptima, allOptimalConfigs,
                   saveCalled, recordedAt, everRecorded>>

Next ==
    \/ \E n \in 1..MaxRunIters : Converge(n)
    \/ \E n \in 1..MaxInitConfigs : \E initConfigs \in [1..n -> ValidSequences] :
          PostSampleAnnealing(initConfigs)
    \/ Propose
    \/ UpdateConfigs
    \/ UpdateAnnealing
    \/ EndIteration
    \/ CutTemperature

Spec == Init /\ [][Next]_vars

\* ================================================================ claims
Abs(x) == IF x < 0 THEN -x ELSE x

\* active length: the number of leading nonzero positions
RECURSIVE LeadingNonzero(_, _)
LeadingNonzero(s, k) ==
    IF k > max_length THEN 0
    ELSE IF s[k] = 0 THEN 0
    ELSE 1 + LeadingNonzero(s, k + 1)

ActiveLength(s) == LeadingNonzero(s, 1)

\* a padded sequence is well formed: its active length is within the
\* configured bounds and everything beyond it is zero
WellFormed(s) ==
    /\ ActiveLength(s) >= min_length
    /\ ActiveLength(s) <= max_length
    /\ \A k \in Positions : k > ActiveLength(s) => s[k] = 0

\* C1: in every reachable state each current sequence and each proposed
\* sequence has an active length between min_length and max_length and is
\* zero beyond it (padding is suffix-only).
C1_PaddingIsSuffixOnly ==
    /\ \A i \in DOMAIN config : WellFormed(config[i])
    /\ \A i \in DOMAIN propConfig : WellFormed(propConfig[i])

\* values of a list of entries in the current state
Vals(entries, cfg) == [k \in DOMAIN entries |-> Val(entries[k], cfg)]

\* the pool's first entries are the ones seeded from optimalSamples, which
\* holds one entry per row of initOptima when the pool is seeded
NSeeded == Len(optimalSamples)

\* C2: no two entries of the global dedup pool are identical symbol arrays,
\* except for the entries seeded into it: every entry appended by saveOptima
\* differs from every entry that was in the pool before it.
C2_PoolHasNoCopies ==
    \A k \in DOMAIN allOptimalConfigs : \A j \in 1..(k - 1) :
        k > NSeeded =>
            Val(allOptimalConfigs[j], config) # Val(allOptimalConfigs[k], config)

\* row i was accepted by the updateConfigs step being taken
Accepted(i) == alphaRandoms'[i] < acceptanceRatio(scores, i)

\* the updateConfigs step being taken appended to row i's optimum record
Appended(i) == Len(optima'[i]) = Len(optima[i]) + 1

\* sequences recorded before row i's acceptance in the step being taken
RecordedBefore(i) ==
    everRecorded \cup {propConfig[j] : j \in {r \in Rows : r < i /\ Appended(r)}}

\* C3: on every acceptance in row i the proposal is appended to the row's
\* optimum record and to the pool exactly when it is a new best, or passes
\* the margin test and differs from every sequence recorded before.
C3_RecordedWhenNewOrNear ==
    [][pc = "update" =>
        \A i \in Rows : Accepted(i) =>
            LET s == scores[1][i]
                should == \/ s < E0[i]
                          \/ /\ nearMargin(E0[i], s)
                             /\ propConfig[i] \notin RecordedBefore(i)
            IN  /\ should =>
                    /\ Appended(i)
                    /\ Last(optima'[i]) = s
                    /\ Val(Last(optimalSamples'[i]), config') = propConfig[i]
                    /\ \E k \in DOMAIN allOptimalConfigs' :
                          Val(allOptimalConfigs'[k], config') = propConfig[i]
                /\ ~should => optima'[i] = optima[i]]_vars

\* C4: saveOptima is called for an accepted proposal only if its score is a
\* strict improvement on E0[i] or within recordMargin of it relative to
\* |E0[i]|, whatever the sign of E0[i].
C4_SavedOnlyWithinMargin ==
    [][pc = "update" =>
        \A i \in saveCalled' :
            \/ scores[1][i] < E0[i]
            \/ RecordMarginInv * (scores[1][i] - E0[i]) < Abs(E0[i])]_vars

\* the updateAnnealing step being taken force-resets row i
ForceReset(i) ==
    /\ resetInd'[i] = iter
    /\ temperature'[i] = [base |-> temp0, k |-> 0]
    /\ config'[i] \in makeAConfig

\* C5: the annealing controller force-resets row i if and only if more than
\* the stagnation limit of iterations passed since its last reset and since
\* the last append to its optimum record (new best or not).
C5_ResetIffStagnantSinceLastRecord ==
    [][(pc = "tail" /\ mode = "converge" /\ AnnealingDue) =>
        \A i \in Rows :
            IF /\ iter - resetInd[i] > StagnationLimit
               /\ iter - Last(recordedAt[i]) > StagnationLimit
            THEN ForceReset(i)
            ELSE /\ resetInd'[i] = resetInd[i]
                 /\ config'[i] = config[i]]_vars

\* C6: with variable length, a length-change draw of -1 on a row whose
\* active length after the point mutation exceeds min_length zeroes the last
\* active slot; a draw of +1 below max_length writes the extension symbol at
\* the first padding slot; a draw of 0 leaves the length unchanged.
C6_LengthChangeFollowsDraw ==
    [][\A pick \in [Rows -> 0..(max_length - 1)], spin \in [Rows -> Symbols],
          chg \in [Rows -> {-1, 0, 1}], ext \in [Rows -> Symbols] :
        ProposeWith(pick, spin, chg, ext) =>
            \A i \in Rows :
                LET m == PointMutation(config[i], pick[i], spin[i])
                    len == ActiveLength(m)
                IN  /\ (chg[i] = -1 /\ len > min_length) =>
                          propConfig'[i] = [m EXCEPT ![len] = 0]
                    /\ (chg[i] = 1 /\ len < max_length) =>
                          propConfig'[i] = [m EXCEPT ![len + 1] = ext[i]]
                    /\ chg[i] = 0 => propConfig'[i] = m]_vars

\* C7: at the end of every iteration of an exploratory run absMin is not
\* greater than the score of any trajectory's current sequence.
C7_AbsMinIsLowestScore ==
    (mode = "converge" /\ (pc = "idle" \/ (pc = "prop" /\ iter > 0))) =>
        \A i \in Rows : absMin <= Score(config[i])

\* C8: after updateConfigs, an accepted row holds exactly its proposal and
\* the iteration is appended to its recInds; a rejected row keeps its
\* sequence, recInds, E0 and optimum record; no row is touched by another
\* row's outcome.
C8_UpdateReplacesOrKeeps ==
    [][pc = "update" =>
        \A i \in Rows :
            IF Accepted(i)
            THEN /\ config'[i] = propConfig[i]
                 /\ recInds'[i] = Append(recInds[i], iter)
            ELSE /\ config'[i] = config[i]
                 /\ recInds'[i] = recInds[i]
                 /\ E0'[i] = E0[i]
                 /\ optima'[i] = optima[i]
                 /\ Vals(optimalSamples'[i], config') = Vals(optimalSamples[i], config)
                 /\ Vals(newOptima'[i], config') = Vals(newOptima[i], config)
                 /\ optimalInds'[i] = optimalInds[i]]_vars

\* C8 witness: an updateConfigs step has accepted one row, which now holds
\* its proposal, and rejected another, which differs from its proposal
C8_Witness ==
    /\ pc = "tail"
    /\ \E i \in Rows, j \in Rows :
        /\ i # j
        /\ alphaRandoms[i] < acceptanceRatio(scores, i)
        /\ config[i] = propConfig[i]
        /\ config[i] # config[j]
        /\ Len(recInds[i]) > 0
        /\ Last(recInds[i]) = iter
        /\ ~(alphaRandoms[j] < acceptanceRatio(scores, j))
        /\ config[j] # propConfig[j]

\* C9: at the first iteration of every postSampleAnnealing call the scalar
\* state is re-initialised for the call: temperature 0.01, acceptance rate 0,
\* last reset 0, and E0, absMin and the optimum records set from the scores
\* of the caller's sequences, sized to the new trajectory count.
C9_AnnealingStartsAfresh ==
    (mode = "anneal" /\ iter = 0 /\ pc = "update") =>
        /\ \A i \in Rows :
            /\ temperature[i] = [base |-> Temp0Annealing, k |-> 0]
            /\ acceptanceRate[i] = 0
            /\ resetInd[i] = 0
        /\ Len(E0) = nruns
        /\ \A i \in Rows : E0[i] = scores[2][i]
        /\ absMin = Min({scores[2][i] : i \in Rows})
        /\ optima = [i \in Rows |-> <<scores[2][i]>>]

\* C10: recorded sequences are snapshots: the symbols of an entry of
\* optimalSamples, newOptima or the pool never change once it is recorded.
C10_RecordsAreSnapshots ==
    [][/\ \A i \in DOMAIN optimalSamples : \A k \in DOMAIN optimalSamples[i] :
            Val(optimalSamples'[i][k], config') = Val(optimalSamples[i][k], config)
       /\ \A i \in DOMAIN newOptima : \A k \in DOMAIN newOptima[i] :
            Val(newOptima'[i][k], config') = Val(newOptima[i][k], config)
       /\ \A k \in DOMAIN allOptimalConfigs :
            Val(allOptimalConfigs'[k], config') = Val(allOptimalConfigs[k], config)]_vars

====
